---------------------------- MODULE Spec2Model ----------------------------
(***************************************************************************)
(* A model of go-i18n (package i18n): language codes, keys, the            *)
(* placeholder parser, the catalog loader and the renderer.                *)
(*                                                                         *)
(* Go strings are byte strings.  A string is modelled as a sequence of     *)
(* bytes, each byte written as a one-character TLA+ string ("a", "{", ".") *)
(* or, for a byte above 0x7F, as its hexadecimal name ("0xC3").            *)
(***************************************************************************)
EXTENDS Naturals, Sequences, FiniteSets, TLC

VARIABLES
    pc,         \* the last call that returned ("start" before any)
    lang,       \* Language.Valid: the receiver
    valid,      \* Language.Valid: the returned bool
    message,    \* parseIntermediates: the argument
    parsed,     \* parseIntermediates: the returned ([]Intermediate, error)
    fs,         \* the directory as filepath.Walk visits it
    trl,        \* the caller's Translations value
    ret,        \* Load: the returned Translations
    err,        \* Load, Translate: the returned error
    argKey,     \* Translate: the key asked for
    params,     \* Translate: the parameters
    languageFn, \* Translate: the languageFn of the catalog
    targetLang, \* GenerateTranslate: the target language
    out,        \* Translate: the returned template.HTML
    keys,       \* the fragments a caller appends, in order
    appended,   \* how many of them have been appended
    builtKey    \* the caller's Key (rootKey of TestKey)

vars == <<pc, lang, valid, message, parsed, fs, trl, ret, err,
          argKey, params, languageFn, targetLang, out,
          keys, appended, builtKey>>

(***************************************************************************)
(* Bounds of the model.                                                    *)
(***************************************************************************)
MaxLangLen == 4
MaxChunks == 4
MaxMembers == 2
MaxFiles == 2
MaxParams == 4
MaxFragments == 4

(***************************************************************************)
(* The errors value nil, and an error as the tuple of its message text     *)
(* followed by the arguments formatted into it.                            *)
(***************************************************************************)
Nil == <<>>

\* errors.New(text)
E(text) == << <<text>> >>

\* fmt.Errorf(text + " %q", arg)
ErrorQ(text, arg) == << <<text>>, arg >>

\* fmt.Errorf("%v " + text + " %q", e, arg)
Errorf(e, text, arg) == e \o << <<text>>, arg >>

(***************************************************************************)
(* package strings / unicode / html, by what the functions do.             *)
(***************************************************************************)
AsciiUpper ==
    {"A","B","C","D","E","F","G","H","I","J","K","L","M",
     "N","O","P","Q","R","S","T","U","V","W","X","Y","Z"}

AsciiLower ==
    {"a","b","c","d","e","f","g","h","i","j","k","l","m",
     "n","o","p","q","r","s","t","u","v","w","x","y","z"}

\* Bytes 0x80..0xFF whose value, read as a code point of Latin-1, is a letter
\* (U+00AA, U+00B5, U+00BA, U+00C0..U+00D6, U+00D8..U+00F6, U+00F8..U+00FF):
\* those of them the model's inputs use.
Latin1LetterBytes == {"0xAA", "0xB5", "0xBA", "0xC2", "0xC3"}

\* unicode.IsLetter(rune(b)) for a byte b: the rune is the byte's VALUE.
IsLetter(b) == b \in AsciiUpper \cup AsciiLower \cup Latin1LetterBytes

\* Language.Valid
Valid(l) == Len(l) = 2 /\ IsLetter(l[1]) /\ IsLetter(l[2])


Min(S) == CHOOSE x \in S : \A y \in S : x <= y

\* Whether sep occurs in s at position i (positions count from 1).
HasPrefixAt(s, i, sep) ==
    /\ i + Len(sep) - 1 <= Len(s)
    /\ SubSeq(s, i, i + Len(sep) - 1) = sep

\* strings.Index: the position of the first occurrence of sep in s, counted
\* from 1; 0 where Go returns -1.
Index(s, sep) ==
    LET hits == {i \in 1..Len(s) : HasPrefixAt(s, i, sep)}
    IN  IF hits = {} THEN 0 ELSE Min(hits)

\* strings.Count, for a non-empty sep: the non-overlapping occurrences.
RECURSIVE Count(_, _)
Count(s, sep) ==
    LET i == Index(s, sep)
    IN  IF i = 0 THEN 0
        ELSE 1 + Count(SubSeq(s, i + Len(sep), Len(s)), sep)

\* strings.Split, for a non-empty sep.
RECURSIVE Split(_, _)
Split(s, sep) ==
    LET i == Index(s, sep)
    IN  IF i = 0 THEN <<s>>
        ELSE <<SubSeq(s, 1, i - 1)>> \o Split(SubSeq(s, i + Len(sep), Len(s)), sep)

\* strings.Replace(s, old, new, -1), for a non-empty old.
RECURSIVE Replace(_, _, _)
Replace(s, old, new) ==
    LET i == Index(s, old)
    IN  IF i = 0 THEN s
        ELSE SubSeq(s, 1, i - 1) \o new
                \o Replace(SubSeq(s, i + Len(old), Len(s)), old, new)

\* strings.Trim(s, cutset): the bytes of cutset removed from both ends.
RECURSIVE TrimLeft(_, _)
TrimLeft(s, cutset) ==
    IF s # <<>> /\ Head(s) \in cutset THEN TrimLeft(Tail(s), cutset) ELSE s

RECURSIVE TrimRight(_, _)
TrimRight(s, cutset) ==
    IF s # <<>> /\ s[Len(s)] \in cutset
    THEN TrimRight(SubSeq(s, 1, Len(s) - 1), cutset)
    ELSE s

Trim(s, cutset) == TrimRight(TrimLeft(s, cutset), cutset)

WhiteSpace == {" ", "\t", "\n", "\r"}

\* strings.TrimSpace
TrimSpace(s) == Trim(s, WhiteSpace)

(***************************************************************************)
(* Key and Intermediate.                                                   *)
(***************************************************************************)
Prefix == <<"{", "{">>

Suffix == <<"}", "}">>

\* Key.Append without the early return for an empty fragment.
AppendEveryFragment(k, s) ==
    LET t == Trim(s, {"."})
    IN  IF k # <<>> THEN k \o <<".">> \o t
        ELSE t

\* Key.Append
Append_(k, s) ==
    LET t == Trim(s, {"."})
    IN  IF t = <<>> THEN k
        ELSE IF k # <<>> THEN k \o <<".">> \o t
        ELSE t

\* Key.String
String(k) == k

\* Intermediate.Format
Format(i) == Prefix \o i \o Suffix

(***************************************************************************)
(* parseIntermediates: the ([]Intermediate, error) it returns.             *)
(***************************************************************************)
ParseResult(is, e) == [intermediates |-> is, err |-> e]

\* The loop over the parts that follow a Prefix.
RECURSIVE ParseParts(_, _)
ParseParts(parts, intermediates) ==
    IF parts = <<>> THEN ParseResult(intermediates, Nil)
    ELSE LET part == Head(parts)
             i == Index(part, Suffix)
             intermediate == TrimSpace(SubSeq(part, 1, i - 1))
         IN  IF i = 0
             THEN ParseResult(<<>>,
                     E("invalid format of intermediates, must end with }}"))
             ELSE IF intermediate = <<>>
             THEN ParseResult(<<>>, E("empty intermediate"))
             ELSE ParseParts(Tail(parts), intermediates \o <<intermediate>>)

\* parseIntermediates without the comparison of the delimiter counts.
parseIntermediatesUnbalanced(m) == ParseParts(Tail(Split(m, Prefix)), <<>>)

parseIntermediates(m) ==
    IF Count(m, Prefix) # Count(m, Suffix)
    THEN ParseResult(<<>>, E("invalid format of intermediates"))
    ELSE ParseParts(Tail(Split(m, Prefix)), <<>>)

(***************************************************************************)
(* Translations, Store, Translation.  A Go map is a function; a nil map    *)
(* and an empty map read alike and are both the empty function.            *)
(***************************************************************************)
EmptyMap == [x \in {} |-> x]

\* m[k] = v
Put(m, k, v) == [x \in DOMAIN m \cup {k} |-> IF x = k THEN v ELSE m[x]]

\* Translations{}
Blank == [directory |-> <<>>, defaultLanguage |-> <<>>, translations |-> EmptyMap]

NewTranslations(directory, defaultLanguage) ==
    [directory |-> directory, defaultLanguage |-> defaultLanguage,
     translations |-> EmptyMap]

(***************************************************************************)
(* A file's content is modelled by what json.Unmarshal makes of it: a      *)
(* JSON value [t |-> "string", s |-> ...], [t |-> "object", m |-> ...],    *)
(* [t |-> "number"], [t |-> "null"], or [t |-> "malformed"] for text that  *)
(* is no JSON, or [t |-> "unreadable"] when ioutil.ReadFile fails.         *)
(***************************************************************************)
Str(s) == [t |-> "string", s |-> s]

Obj(m) == [t |-> "object", m |-> m]

\* json.Unmarshal(b, &deserialized) for deserialized map[string]interface{}
Unmarshal(content) ==
    CASE content.t = "object" -> [data |-> content.m, err |-> Nil]
      [] content.t = "null" -> [data |-> EmptyMap, err |-> Nil]
      [] content.t = "malformed" ->
            [data |-> EmptyMap, err |-> E("invalid character")]
      [] OTHER ->
            [data |-> EmptyMap,
             err |-> E("json: cannot unmarshal into Go value of type map[string]interface {}")]

UpperLetters ==
    <<"A","B","C","D","E","F","G","H","I","J","K","L","M",
      "N","O","P","Q","R","S","T","U","V","W","X","Y","Z">>

LowerLetters ==
    <<"a","b","c","d","e","f","g","h","i","j","k","l","m",
      "n","o","p","q","r","s","t","u","v","w","x","y","z">>

\* strings.ToLower of an ASCII string
ToLower(s) ==
    [i \in 1..Len(s) |->
        IF \E j \in 1..26 : UpperLetters[j] = s[i]
        THEN LowerLetters[CHOOSE j \in 1..26 : UpperLetters[j] = s[i]]
        ELSE s[i]]

(***************************************************************************)
(* flatten.  Go ranges over a map in an unspecified order, so flatten is   *)
(* the SET of the (store, error) pairs it may end with.                    *)
(***************************************************************************)
FlatResult(store, e) == [store |-> store, err |-> e]

RECURSIVE flatten(_, _, _)
RECURSIVE flattenRange(_, _, _, _)
RECURSIVE flattenMember(_, _, _, _, _)

\* One iteration of the range loop, for member key, and the rest of the loop.
flattenMember(rootKey, data, key, rest, store) ==
    IF key = <<>>
    THEN {FlatResult(store, E("invalid key, should not be empty"))}
    ELSE LET k == Append_(rootKey, key)
             value == data[key]
         IN  CASE value.t = "string" ->
                    LET p == parseIntermediates(value.s)
                    IN  IF p.err # Nil
                        THEN {FlatResult(store, Errorf(p.err, "with key", k))}
                        ELSE flattenRange(rootKey, data, rest,
                                Put(store, k, [Message |-> value.s,
                                               Intermediates |-> p.intermediates]))
               [] value.t = "object" ->
                    UNION { IF o.err # Nil THEN {o}
                            ELSE flattenRange(rootKey, data, rest, o.store)
                            : o \in flatten(k, value.m, store) }
               [] OTHER ->
                    {FlatResult(store,
                        ErrorQ("invalid type in translation file, only string or objects as values allowed",
                               <<value.t>>))}

\* The range loop over the members not yet visited.
flattenRange(rootKey, data, todo, store) ==
    IF todo = {} THEN {FlatResult(store, Nil)}
    ELSE UNION { flattenMember(rootKey, data, key, todo \ {key}, store)
                 : key \in todo }

\* flatten without the test for an object that has no members.
flattenAnyObject(rootKey, data, store) ==
    flattenRange(rootKey, data, DOMAIN data, store)

flatten(rootKey, data, store) ==
    IF DOMAIN data = {}
    THEN {FlatResult(store, ErrorQ("invalid translation for", rootKey))}
    ELSE flattenRange(rootKey, data, DOMAIN data, store)

(***************************************************************************)
(* Load.  The directory is the sequence of the entries filepath.Walk       *)
(* hands to the callback: [kind |-> "error"] (Walk reports an error, as    *)
(* for a root that does not exist), [kind |-> "dir"], or a file with the   *)
(* extension filepath.Ext finds, the name before it, and its content.      *)
(***************************************************************************)
WalkResult(translations, e) == [translations |-> translations, err |-> e]

\* The callback of filepath.Walk on one entry.
WalkFn(entry, translations) ==
    IF entry.kind = "error" THEN {WalkResult(translations, E("lstat: no such file or directory"))}
    ELSE IF entry.kind = "dir" THEN {WalkResult(translations, Nil)}
    ELSE IF entry.ext # ".json" THEN {WalkResult(translations, Nil)}
    ELSE
      LET l == ToLower(entry.stem)
          u == Unmarshal(entry.content)
      IN  IF ~Valid(l)
          THEN {WalkResult(translations,
                  ErrorQ("invalid file naming scheme, allowed are only two letter codes", l))}
          ELSE IF entry.content.t = "unreadable"
          THEN {WalkResult(translations, Errorf(E("read error"), "for", l))}
          ELSE IF u.err # Nil
          THEN {WalkResult(translations, Errorf(u.err, "for", l))}
          ELSE { IF o.err # Nil
                 THEN WalkResult(translations, Errorf(o.err, "for", l))
                 ELSE IF DOMAIN o.store = {}
                 THEN WalkResult(translations, ErrorQ("no translations found for", l))
                 ELSE WalkResult(Put(translations, l, o.store), Nil)
                 : o \in flatten(<<>>, u.data, EmptyMap) }

\* filepath.Walk: the callback on each entry in turn, until it returns an error.
RECURSIVE Walk(_, _)
Walk(entries, translations) ==
    IF entries = <<>> THEN {WalkResult(translations, Nil)}
    ELSE UNION { IF w.err # Nil THEN {w} ELSE Walk(Tail(entries), w.translations)
                 : w \in WalkFn(Head(entries), translations) }

\* What the caller's value is after a call of Load that built the map
\* translations: Load has a value receiver, and assigns to its own copy.
ReceiverPointer(t, translations) == [t EXCEPT !.translations = translations]

Receiver(t, translations) == t

LoadResult(t, r, e, translations) ==
    [ret |-> r, err |-> e, receiver |-> Receiver(t, translations)]

\* Load without the test for the default language's Store.
LoadAnyLanguage(t, dir) ==
    IF ~Valid(t.defaultLanguage)
    THEN {LoadResult(t, Blank,
            E("invalid default language, must follow two letter code"),
            t.translations)}
    ELSE { IF w.err # Nil
           THEN LoadResult(t, Blank, w.err, w.translations)
           ELSE LoadResult(t, [t EXCEPT !.translations = w.translations], Nil,
                    w.translations)
           : w \in Walk(dir, EmptyMap) }

\* Translations.Load: the (Translations, error) pairs it may return.
Load(t, dir) ==
    IF ~Valid(t.defaultLanguage)
    THEN {LoadResult(t, Blank,
            E("invalid default language, must follow two letter code"),
            t.translations)}
    ELSE { IF w.err # Nil
           THEN LoadResult(t, Blank, w.err, w.translations)
           ELSE IF t.defaultLanguage \notin DOMAIN w.translations
           THEN LoadResult(t, Blank,
                    E("no translations found for default language"), w.translations)
           ELSE LoadResult(t, [t EXCEPT !.translations = w.translations], Nil,
                    w.translations)
           : w \in Walk(dir, EmptyMap) }

(***************************************************************************)
(* Inputs.                                                                 *)
(***************************************************************************)
\* All sequences over S of length at most n.
RECURSIVE SeqsUpTo(_, _)
SeqsUpTo(S, n) ==
    IF n = 0 THEN {<<>>}
    ELSE LET shorter == SeqsUpTo(S, n - 1)
         IN  shorter \cup {Append(s, x) : s \in shorter, x \in S}

\* The concatenations of at most n strings of S.
RECURSIVE Concats(_, _)
Concats(S, n) ==
    IF n = 0 THEN {<<>>}
    ELSE LET shorter == Concats(S, n - 1)
         IN  shorter \cup {s \o c : s \in shorter, c \in S}

LangBytes == {"d", "e", "3", "0xC3", "0xAA", "0xA9"}

Languages == SeqsUpTo(LangBytes, MaxLangLen)

Chunks ==
    { <<"{", "{">>, <<"}", "}">>, <<"{">>, <<"}">>, <<" ">>, <<"a">>, <<"b">>,
      <<"{", "{", "a", "}", "}">>, <<"{", "{", " ", "b", " ", "}", "}">> }

Messages == Concats(Chunks, MaxChunks)

\* JSON member names, leaf values, and the objects with at most n members
\* in all, nested ones counted.
MemberNames == { <<>>, <<"a">>, <<"a", ".">>, <<"b">> }

LeafValues ==
    { Str(<<"x">>), Str(<<"{", "{", "a", "}", "}">>), Str(<<"{", "{">>),
      [t |-> "number"] }

\* The objects made from m by adding one member, at any level.
RECURSIVE Extend(_)
Extend(m) ==
    {Put(m, name, v) : name \in MemberNames \ DOMAIN m,
                       v \in LeafValues \cup {Obj(EmptyMap)}}
    \cup UNION { {Put(m, name, Obj(inner)) : inner \in Extend(m[name].m)}
                 : name \in {x \in DOMAIN m : m[x].t = "object"} }

RECURSIVE ObjectsUpTo(_)
ObjectsUpTo(n) ==
    IF n = 0 THEN {EmptyMap}
    ELSE LET smaller == ObjectsUpTo(n - 1)
         IN  smaller \cup UNION {Extend(m) : m \in smaller}

Contents ==
    {Obj(m) : m \in ObjectsUpTo(MaxMembers)}
    \cup {[t |-> "malformed"], [t |-> "unreadable"], [t |-> "null"], Str(<<"x">>)}

File(stem, ext, content) ==
    [kind |-> "file", stem |-> stem, ext |-> ext, content |-> content]

En == <<"e", "n">>

De == <<"d", "e">>

Stems == { En, <<"E", "N">>, <<"e", "3">> }

DefaultLanguages == { En, De, <<"e", "3">> }

\* What Walk visits before the file under test: nothing, or a subdirectory,
\* a file that is no .json file, and a valid de.json.
Before ==
    { <<>>,
      << [kind |-> "dir"],
         File(<<"n", "o", "t", "e", "s">>, ".txt", [t |-> "malformed"]),
         File(De, ".json", Obj(Put(EmptyMap, <<"a">>, Str(<<"x">>)))) >> }

Directories ==
    { << [kind |-> "error"] >> }
    \cup { b \o << File(stem, ".json", c) >> : b \in Before, stem \in Stems, c \in Contents }

Locales == <<"l", "o", "c", "a", "l", "e", "s">>

(***************************************************************************)
(* The renderer: createIntermediateLookup, Translate, GenerateTranslate.   *)
(* A parameter is a Go value: a string Str(s) or an int.                   *)
(***************************************************************************)
Int(n) == [t |-> "int", n |-> n]

Digits == <<"0", "1", "2", "3", "4", "5", "6", "7", "8", "9">>

RECURSIVE Itoa(_)
Itoa(n) ==
    IF n < 10 THEN <<Digits[n + 1]>>
    ELSE Itoa(n \div 10) \o <<Digits[(n % 10) + 1]>>

\* fmt.Sprintf("%v", v)
Sprintf(v) == IF v.t = "string" THEN v.s ELSE Itoa(v.n)

EscapeByte(b) ==
    CASE b = "&" -> <<"&", "a", "m", "p", ";">>
      [] b = "<" -> <<"&", "l", "t", ";">>
      [] b = ">" -> <<"&", "g", "t", ";">>
      [] b = "\"" -> <<"&", "#", "3", "4", ";">>
      [] b = "'" -> <<"&", "#", "3", "9", ";">>
      [] OTHER -> <<b>>

\* html.EscapeString
RECURSIVE EscapeString(_)
EscapeString(s) ==
    IF s = <<>> THEN <<>> ELSE EscapeByte(Head(s)) \o EscapeString(Tail(s))

LookupResult(dict, e) == [dict |-> dict, err |-> e]

\* The loop of createIntermediateLookup from index i (counted from 1).
RECURSIVE LookupLoop(_, _, _)
LookupLoop(parameter, i, dict) ==
    IF i > Len(parameter) THEN LookupResult(dict, Nil)
    ELSE IF parameter[i].t # "string"
    THEN LookupResult(EmptyMap, E("dict keys must be strings"))
    ELSE LookupLoop(parameter, i + 2, Put(dict, parameter[i].s, parameter[i + 1]))

createIntermediateLookup(parameter) ==
    IF Len(parameter) % 2 # 0
    THEN LookupResult(EmptyMap, E("invalid dict call"))
    ELSE LookupLoop(parameter, 1, EmptyMap)

Rendered(text, e) == [out |-> text, err |-> e]

\* The replacement loop with the message returned as far as it was
\* substituted when a parameter is missing.
RECURSIVE ReplaceLoopPartial(_, _, _, _)
ReplaceLoopPartial(intermediates, msg, lookup, key) ==
    IF intermediates = <<>> THEN Rendered(msg, Nil)
    ELSE LET intermediate == Head(intermediates)
         IN  IF intermediate \notin DOMAIN lookup
             THEN Rendered(msg,
                    Errorf(ErrorQ("parameter required for intermediate in translation", key),
                           ":", intermediate))
             ELSE ReplaceLoopPartial(Tail(intermediates),
                    Replace(msg, Format(intermediate),
                            EscapeString(Sprintf(lookup[intermediate]))),
                    lookup, key)

\* The loop that replaces the intermediates with the passed params.
RECURSIVE ReplaceLoop(_, _, _, _)
ReplaceLoop(intermediates, msg, lookup, key) ==
    IF intermediates = <<>> THEN Rendered(msg, Nil)
    ELSE LET intermediate == Head(intermediates)
         IN  IF intermediate \notin DOMAIN lookup
             THEN Rendered(<<>>,
                    Errorf(ErrorQ("parameter required for intermediate in translation", key),
                           ":", intermediate))
             ELSE ReplaceLoop(Tail(intermediates),
                    Replace(msg, Format(intermediate),
                            EscapeString(Sprintf(lookup[intermediate]))),
                    lookup, key)

\* The look-up of language and key, and the replacement.
Render(t, l, k, lookup) ==
    IF l \notin DOMAIN t.translations
    THEN Rendered(<<>>, ErrorQ("unknown language", l))
    ELSE IF k \notin DOMAIN t.translations[l]
    THEN Rendered(<<>>, ErrorQ("unknown key", k))
    ELSE ReplaceLoop(t.translations[l][k].Intermediates,
                     t.translations[l][k].Message, lookup, k)

\* Translations.Translate.  fn is the languageFn given to NewTranslations:
\* <<>> for nil, <<l>> for a function that returns l at this call.
Translate(t, fn, k, parameter) ==
    LET lookup == createIntermediateLookup(parameter)
        l == IF fn # <<>> /\ Valid(fn[1]) THEN fn[1] ELSE t.defaultLanguage
    IN  IF lookup.err # Nil THEN Rendered(<<>>, lookup.err)
        ELSE Render(t, l, k, lookup.dict)

\* The language GenerateTranslate binds, with a target taken as it is.
BoundLanguageAsGiven(t, target) == target

\* The language GenerateTranslate binds the returned function to.
BoundLanguage(t, target) ==
    IF ~Valid(target) THEN t.defaultLanguage ELSE target

\* The function GenerateTranslate returns, bound to language l, applied.
Generated(t, l, k, parameter) ==
    LET lookup == createIntermediateLookup(parameter)
    IN  IF lookup.err # Nil THEN Rendered(<<>>, lookup.err)
        ELSE Render(t, l, k, lookup.dict)

(***************************************************************************)
(* The variables a specification does not use stay as they start.          *)
(***************************************************************************)
validVars == <<lang, valid>>

parseVars == <<message, parsed>>

loadVars == <<fs, ret>>

renderVars == <<argKey, params, languageFn, targetLang, out>>

keyVars == <<keys, appended, builtKey>>

IdleValid == lang = <<>> /\ valid = FALSE

IdleParse == message = <<>> /\ parsed = ParseResult(<<>>, Nil)

IdleLoad == fs = <<>> /\ ret = Blank

IdleKey == keys = <<>> /\ appended = 0 /\ builtKey = <<>>

IdleRender ==
    /\ argKey = <<>>
    /\ params = <<>>
    /\ languageFn = <<>>
    /\ targetLang = <<>>
    /\ out = <<>>

(***************************************************************************)
(* Language.Valid applied to any byte string.                              *)
(***************************************************************************)
InitValid ==
    /\ pc = "start"
    /\ lang \in Languages
    /\ valid = FALSE
    /\ trl = Blank
    /\ err = Nil
    /\ IdleParse /\ IdleLoad /\ IdleRender /\ IdleKey

CallValid ==
    /\ pc' = "Valid"
    /\ valid' = Valid(lang)
    /\ UNCHANGED <<lang, trl, err, parseVars, loadVars, renderVars, keyVars>>

NextValid == CallValid

SpecValid == InitValid /\ [][NextValid]_vars

(***************************************************************************)
(* parseIntermediates applied to any message.                              *)
(***************************************************************************)
InitParse ==
    /\ pc = "start"
    /\ message \in Messages
    /\ parsed = ParseResult(<<>>, Nil)
    /\ trl = Blank
    /\ err = Nil
    /\ IdleValid /\ IdleLoad /\ IdleRender /\ IdleKey

CallParseIntermediates ==
    /\ pc' = "parseIntermediates"
    /\ parsed' = parseIntermediates(message)
    /\ UNCHANGED <<message, trl, err, validVars, loadVars, renderVars, keyVars>>

NextParse == CallParseIntermediates

SpecParse == InitParse /\ [][NextParse]_vars

(***************************************************************************)
(* Load of a directory by a new Translations.                              *)
(***************************************************************************)
InitLoad ==
    /\ pc = "start"
    /\ fs \in Directories
    /\ \E dl \in DefaultLanguages : trl = NewTranslations(Locales, dl)
    /\ ret = Blank
    /\ err = Nil
    /\ IdleValid /\ IdleParse /\ IdleRender /\ IdleKey

CallLoad ==
    /\ \E o \in Load(trl, fs) :
          /\ ret' = o.ret
          /\ err' = o.err
          /\ trl' = o.receiver
    /\ pc' = "Load"
    /\ UNCHANGED <<fs, validVars, parseVars, renderVars, keyVars>>

NextLoad == CallLoad

SpecLoad == InitLoad /\ [][NextLoad]_vars

(***************************************************************************)
(* Loading again.  The caller keeps the returned value (t, err = t.Load()),*)
(* the files of the directory change, and Load is called on the value the  *)
(* caller holds.                                                           *)
(***************************************************************************)
Translated(name, text) == Put(EmptyMap, name, Str(text))

LanguageFiles ==
    { [kind |-> "error"],
      File(En, ".json", Obj(Put(Translated(<<"a">>, <<"x">>), <<"b">>, Str(<<"y">>)))),
      File(<<"E", "N">>, ".json", Obj(Put(Translated(<<"a">>, <<"z">>), <<"c">>, Str(<<"w">>)))),
      File(De, ".json", Obj(Translated(<<"a">>, <<"{", "{", "a", "}", "}">>))),
      File(En, ".json", [t |-> "malformed"]),
      File(De, ".json", [t |-> "unreadable"]),
      File(<<"e", "n", "g">>, ".json", Obj(Translated(<<"a">>, <<"x">>))),
      File(De, ".json", Obj(Put(EmptyMap, <<"a">>, [t |-> "number"]))) }

InitReload ==
    /\ pc = "start"
    /\ fs = <<>>
    /\ \E dl \in DefaultLanguages : trl = NewTranslations(Locales, dl)
    /\ ret = Blank
    /\ err = Nil
    /\ IdleValid /\ IdleParse /\ IdleRender /\ IdleKey

\* t, err = t.Load(): the caller keeps what Load returned.
Assign ==
    /\ pc = "Load"
    /\ trl' = ret
    /\ pc' = "Assign"
    /\ UNCHANGED <<err, loadVars, validVars, parseVars, renderVars, keyVars>>

\* A file is added to the directory.
AddFile ==
    /\ Len(fs) < MaxFiles
    /\ \E f \in LanguageFiles, i \in 0..Len(fs) :
          fs' = SubSeq(fs, 1, i) \o <<f>> \o SubSeq(fs, i + 1, Len(fs))
    /\ pc' = "AddFile"
    /\ UNCHANGED <<trl, ret, err, validVars, parseVars, renderVars, keyVars>>

\* A file of the directory is removed.
RemoveFile ==
    /\ \E i \in 1..Len(fs) :
          fs' = SubSeq(fs, 1, i - 1) \o SubSeq(fs, i + 1, Len(fs))
    /\ pc' = "RemoveFile"
    /\ UNCHANGED <<trl, ret, err, validVars, parseVars, renderVars, keyVars>>

NextReload == CallLoad \/ Assign \/ AddFile \/ RemoveFile

SpecReload == InitReload /\ [][NextReload]_vars

(***************************************************************************)
(* Rendering from a loaded catalog.                                        *)
(***************************************************************************)
Fr == <<"f", "r">>

\* en.json and de.json of the rendered catalog.
EnglishFile ==
    File(En, ".json",
         Obj( <<"h">> :> Str(<<"<", "{", "{", "a", "}", "}", ">">>)
           @@ <<"t">> :> Obj(<<"w">> :> Str(<<"{", "{", "a", "}", "}", "{", "{", "b", "}", "}">>))
           @@ <<"s">> :> Str(<<"{", "{", " ", "a", " ", "}", "}">>) ))

GermanFile ==
    File(De, ".json", Obj( <<"h">> :> Str(<<"{", "{", "a", "}", "}", "!">>) ))

\* The catalogs a caller may hold: one never loaded, and those Load returns.
Catalogs ==
    { NewTranslations(Locales, En) }
    \cup { o.ret : o \in { x \in Load(NewTranslations(Locales, En),
                                      <<GermanFile, EnglishFile>>) : x.err = Nil } }
    \cup { o.ret : o \in { x \in Load(NewTranslations(Locales, De),
                                      <<GermanFile, EnglishFile>>) : x.err = Nil } }

RequestKeys == { <<"h">>, <<"t", ".", "w">>, <<"s">>, <<"t">> }

ParamValues ==
    { Str(<<"a">>), Str(<<"b">>), Str(<<"{", "{", "b", "}", "}">>),
      Str(<<"<", "&", "\"", "'", ">">>), Int(70) }

LanguageInputs == { En, De, Fr, <<"e", "3">>, <<>> }

InitRender ==
    /\ pc = "start"
    /\ trl \in Catalogs
    /\ argKey \in RequestKeys
    /\ params \in SeqsUpTo(ParamValues, MaxParams)
    /\ languageFn = <<>>
    /\ targetLang = <<>>
    /\ out = <<>>
    /\ err = Nil
    /\ IdleValid /\ IdleParse /\ IdleLoad /\ IdleKey

\* trl.Translate(key, params...) with a nil languageFn, or with one that
\* returns l.
CallTranslate ==
    /\ \E fn \in {<<>>} \cup {<<l>> : l \in LanguageInputs} :
          /\ languageFn' = fn
          /\ LET r == Translate(trl, fn, argKey, params)
             IN  out' = r.out /\ err' = r.err
    /\ targetLang' = <<>>
    /\ pc' = "Translate"
    /\ UNCHANGED <<trl, argKey, params, validVars, parseVars, loadVars, keyVars>>

\* trl.GenerateTranslate(target)(key, params...)
CallGenerated ==
    /\ \E target \in LanguageInputs :
          /\ targetLang' = target
          /\ LET r == Generated(trl, BoundLanguage(trl, target), argKey, params)
             IN  out' = r.out /\ err' = r.err
    /\ languageFn' = <<>>
    /\ pc' = "Generated"
    /\ UNCHANGED <<trl, argKey, params, validVars, parseVars, loadVars, keyVars>>

NextRender == CallTranslate \/ CallGenerated

SpecRender == InitRender /\ [][NextRender]_vars

(***************************************************************************)
(* A Key built by appending fragments to the zero Key, as TestKey does:    *)
(* var rootKey Key; for each fragment, rootKey = rootKey.Append(fragment). *)
(***************************************************************************)
Fragments ==
    { <<>>, <<"a">>, <<"b">>, <<".">>, <<".", "b", ".">>, <<"/">>,
      <<".", ".", "a">>, <<"a", ".", "b">> }

InitKey ==
    /\ pc = "start"
    /\ keys \in SeqsUpTo(Fragments, MaxFragments)
    /\ appended = 0
    /\ builtKey = <<>>
    /\ trl = Blank
    /\ err = Nil
    /\ IdleValid /\ IdleParse /\ IdleLoad /\ IdleRender

\* rootKey = rootKey.Append(key), for the next fragment of the range.
CallAppend ==
    /\ appended < Len(keys)
    /\ builtKey' = Append_(builtKey, keys[appended + 1])
    /\ appended' = appended + 1
    /\ pc' = "Append"
    /\ UNCHANGED <<keys, out, trl, err, validVars, parseVars, loadVars,
                   argKey, params, languageFn, targetLang>>

\* rootKey.String()
CallString ==
    /\ out' = String(builtKey)
    /\ pc' = "String"
    /\ UNCHANGED <<keys, appended, builtKey, trl, err, validVars, parseVars,
                   loadVars, argKey, params, languageFn, targetLang>>

NextKey == CallAppend \/ CallString

SpecKey == InitKey /\ [][NextKey]_vars

(***************************************************************************)
(* The characters of a byte string: its UTF-8 decoding.  Of the model's    *)
(* bytes, 0xC3 leads a two-byte encoding and 0xAA and 0xA9 continue one    *)
(* (0xC3 0xAA is U+00EA, 0xC3 0xA9 is U+00E9, both letters); any other     *)
(* byte above 0x7F is an encoding error, one character that is no letter.  *)
(***************************************************************************)
RECURSIVE Characters(_)
Characters(s) ==
    IF s = <<>> THEN <<>>
    ELSE IF Len(s) >= 2 /\ s[1] = "0xC3" /\ s[2] \in {"0xAA", "0xA9"}
    THEN <<SubSeq(s, 1, 2)>> \o Characters(SubSeq(s, 3, Len(s)))
    ELSE <<SubSeq(s, 1, 1)>> \o Characters(Tail(s))

IsLetterCharacter(c) ==
    \/ Len(c) = 1 /\ c[1] \in AsciiUpper \cup AsciiLower
    \/ c \in { <<"0xC3", "0xAA">>, <<"0xC3", "0xA9">> }

\* C1: Valid() returns true if and only if the code consists of exactly two
\* characters and both characters are letters.
C1_ValidIffTwoLetters ==
    pc = "Valid" =>
        (valid <=> /\ Len(Characters(lang)) = 2
                   /\ \A i \in 1..2 : IsLetterCharacter(Characters(lang)[i]))

(***************************************************************************)
(* The placeholders of a message, read off the positions of its            *)
(* delimiters.                                                             *)
(***************************************************************************)
Max(S) == CHOOSE x \in S : \A y \in S : x >= y

\* The positions of the occurrences of the two-byte delimiter d in s at or
\* after from, counted left to right without overlap.
RECURSIVE DelimiterPositions(_, _, _)
DelimiterPositions(s, d, from) ==
    IF from + 1 > Len(s) THEN <<>>
    ELSE IF s[from] = d[1] /\ s[from + 1] = d[2]
    THEN <<from>> \o DelimiterPositions(s, d, from + 2)
    ELSE DelimiterPositions(s, d, from + 1)

\* The text that follows the i-th "{{", up to the next "{{" or the end.
Segment(m, opens, i) ==
    SubSeq(m, opens[i] + 2, IF i < Len(opens) THEN opens[i + 1] - 1 ELSE Len(m))

Closes(seg) == {j \in 1..(Len(seg) - 1) : seg[j] = "}" /\ seg[j + 1] = "}"}

WithoutSurroundingSpace(s) ==
    LET solid == {i \in 1..Len(s) : s[i] \notin WhiteSpace}
    IN  IF solid = {} THEN <<>> ELSE SubSeq(s, Min(solid), Max(solid))

PlaceholderName(seg) ==
    WithoutSurroundingSpace(SubSeq(seg, 1, Min(Closes(seg)) - 1))

\* C4: parseIntermediates returns an error exactly when the numbers of "{{"
\* and "}}" differ, or a segment following a "{{" contains no "}}", or a
\* name is empty after trimming; otherwise it returns the trimmed names in
\* order of occurrence, duplicates kept, one per "{{".
C4_ParseIntermediates ==
    pc = "parseIntermediates" =>
        LET opens == DelimiterPositions(message, Prefix, 1)
            closes == DelimiterPositions(message, Suffix, 1)
            segs == [i \in 1..Len(opens) |-> Segment(message, opens, i)]
            bad == \/ Len(opens) # Len(closes)
                   \/ \E i \in 1..Len(opens) : Closes(segs[i]) = {}
                   \/ \E i \in 1..Len(opens) :
                         /\ Closes(segs[i]) # {}
                         /\ PlaceholderName(segs[i]) = <<>>
        IN  IF bad THEN parsed.err # Nil
            ELSE /\ parsed.err = Nil
                 /\ parsed.intermediates =
                        [i \in 1..Len(opens) |-> PlaceholderName(segs[i])]

\* A message with two placeholders, the second one padded with spaces, parsed.
C4_Witness ==
    /\ pc = "parseIntermediates"
    /\ message = <<"{", "{", "a", "}", "}", "{", "{", " ", "b", " ", "}", "}">>
    /\ parsed = ParseResult(<< <<"a">>, <<"b">> >>, Nil)

(***************************************************************************)
(* The JSON files of a directory and the leaves of their trees.            *)
(***************************************************************************)
JsonFiles(dir) ==
    {i \in 1..Len(dir) : dir[i].kind = "file" /\ dir[i].ext = ".json"}

JsonTrees(dir) == {i \in JsonFiles(dir) : dir[i].content.t = "object"}

\* The string-valued leaves of object m, each with the member names on the
\* path from the root to it.
RECURSIVE StringLeaves(_, _)
StringLeaves(path, m) ==
    UNION { IF m[n].t = "string"
            THEN {[path |-> Append(path, n), s |-> m[n].s]}
            ELSE IF m[n].t = "object"
            THEN StringLeaves(Append(path, n), m[n].m)
            ELSE {}
            : n \in DOMAIN m }

\* The key Load forms for a path: its names appended in turn to the zero Key.
RECURSIVE FullKey(_)
FullKey(path) ==
    IF path = <<>> THEN <<>>
    ELSE Append_(FullKey(SubSeq(path, 1, Len(path) - 1)), path[Len(path)])

\* C2: the Store of a successfully loaded file holds exactly one entry per
\* string-valued leaf of the tree, keyed by the member names of the path
\* joined with "." (as a Key joins its fragments), with the leaf's string as
\* Message and the placeholders parsed from it as Intermediates, and no
\* other entry.
C2_OneEntryPerLeaf ==
    (pc = "Load" /\ err = Nil) =>
        \A i \in JsonTrees(fs) :
            LET store == ret.translations[ToLower(fs[i].stem)]
                leaves == StringLeaves(<<>>, fs[i].content.m)
            IN  /\ Cardinality(DOMAIN store) = Cardinality(leaves)
                /\ DOMAIN store = {FullKey(lf.path) : lf \in leaves}
                /\ \A lf \in leaves :
                      store[FullKey(lf.path)] =
                          [Message |-> lf.s,
                           Intermediates |-> parseIntermediates(lf.s).intermediates]

\* Whether object m has an empty member name, an object without members, or
\* a value that is neither a string nor an object, at any level.
RECURSIVE Illegal(_)
Illegal(m) ==
    \/ DOMAIN m = {}
    \/ <<>> \in DOMAIN m
    \/ \E n \in DOMAIN m :
          \/ m[n].t \notin {"string", "object"}
          \/ m[n].t = "object" /\ Illegal(m[n].m)

\* C5: Load returns an error whenever a .json file of the directory holds,
\* at any level, an empty member key, an object with zero members, or a
\* value that is neither a string nor an object.
C5_IllegalTreeFails ==
    (pc = "Load" /\ \E i \in JsonTrees(fs) : Illegal(fs[i].content.m))
        => err # Nil

\* A valid de.json is loaded first; the file under test then holds a valid
\* translation beside a number, and Load fails.
C5_Witness ==
    /\ pc = "Load"
    /\ Len(fs) = 4
    /\ fs[4].stem = En
    /\ fs[4].content.t = "object"
    /\ DOMAIN fs[4].content.m = {<<"a">>, <<"b">>}
    /\ fs[4].content.m[<<"a">>] = Str(<<"x">>)
    /\ fs[4].content.m[<<"b">>].t = "number"
    /\ trl.defaultLanguage = En
    /\ err # Nil

\* C6: Load returns an error for a language file in which two translations
\* are defined under the same full key.
C6_DuplicateKeyFails ==
    (pc = "Load" /\ \E i \in JsonTrees(fs) :
                        \E p, q \in StringLeaves(<<>>, fs[i].content.m) :
                            p.path # q.path /\ FullKey(p.path) = FullKey(q.path))
        => err # Nil

\* C7: when Load returns without error the returned mapping has a Store for
\* the default language and no Store is empty; when no file of the
\* directory yields the default language, Load returns an error.
C7_DefaultLanguageLoaded ==
    pc = "Load" =>
        /\ err = Nil =>
              /\ trl.defaultLanguage \in DOMAIN ret.translations
              /\ \A l \in DOMAIN ret.translations :
                    DOMAIN ret.translations[l] # {}
        /\ (\A i \in JsonFiles(fs) : ToLower(fs[i].stem) # trl.defaultLanguage)
              => err # Nil

\* Both de.json and en.json are loaded, en being the default language.
C7_Witness ==
    /\ pc = "Load"
    /\ err = Nil
    /\ trl.defaultLanguage = En
    /\ DOMAIN ret.translations = {En, De}
    /\ \A l \in {En, De} : DOMAIN ret.translations[l] # {}

\* C8: whenever Load fails, the catalog it returns is blank, and the
\* catalog value on which Load was invoked keeps the mapping it had before
\* the call.
C8_FailedLoadIsBlank ==
    [][(pc' = "Load" /\ err' # Nil) =>
            /\ ret' = Blank
            /\ trl'.translations = trl.translations]_vars

\* The caller holds a loaded catalog; the directory then has a valid en.json
\* followed by a malformed one, Load fails after building the first Store,
\* and the caller's catalog still has its mapping.
C8_Witness ==
    /\ pc = "Load"
    /\ err # Nil
    /\ ret = Blank
    /\ Len(fs) = 2
    /\ \A i \in 1..2 : fs[i].kind = "file"
    /\ fs[1].content.t = "object"
    /\ fs[2].content.t = "malformed"
    /\ DOMAIN trl.translations = {En, De}

(***************************************************************************)
(* The renderer's claims.                                                  *)
(***************************************************************************)
Called == pc \in {"Translate", "Generated"}

\* The language of the call: the one languageFn returns or the target
\* language when Valid accepts it, the default language otherwise.
CallLanguage ==
    IF pc = "Translate"
    THEN IF languageFn # <<>> /\ Valid(languageFn[1]) THEN languageFn[1]
         ELSE trl.defaultLanguage
    ELSE IF Valid(targetLang) THEN targetLang ELSE trl.defaultLanguage

\* The names among the parameters and the value passed last for each.
ParamNames == {params[i].s : i \in {j \in 1..Len(params) : j % 2 = 1}}

ParamValue(name) ==
    params[1 + Max({i \in 1..Len(params) : i % 2 = 1 /\ params[i].s = name})]

\* msg with every placeholder replaced at once: the text before the first
\* "{{", then for each "{{" the escaped value of its name and the text that
\* follows its "}}".
RECURSIVE Substituted(_, _, _)
Substituted(msg, opens, i) ==
    IF i > Len(opens) THEN <<>>
    ELSE LET seg == Segment(msg, opens, i)
         IN  EscapeString(Sprintf(ParamValue(PlaceholderName(seg))))
                \o SubSeq(seg, Min(Closes(seg)) + 2, Len(seg))
                \o Substituted(msg, opens, i + 1)

Simultaneous(msg) ==
    LET opens == DelimiterPositions(msg, Prefix, 1)
    IN  IF opens = <<>> THEN msg
        ELSE SubSeq(msg, 1, opens[1] - 1) \o Substituted(msg, opens, 1)

\* C3: on every successful Translate call the returned text is the stored
\* message with each placeholder replaced by the HTML-escaped string form
\* of the value passed for its name, the static text unchanged.
C3_EveryPlaceholderReplaced ==
    (Called /\ err = Nil) =>
        out = Simultaneous(trl.translations[CallLanguage][argKey].Message)

OddCount == Len(params) % 2 = 1

NameNotString ==
    \E i \in 1..Len(params) : i % 2 = 1 /\ params[i].t # "string"

UnknownLanguage == CallLanguage \notin DOMAIN trl.translations

UnknownKey ==
    /\ ~UnknownLanguage
    /\ argKey \notin DOMAIN trl.translations[CallLanguage]

MissingValue ==
    /\ ~OddCount /\ ~NameNotString /\ ~UnknownLanguage /\ ~UnknownKey
    /\ \E i \in 1..Len(trl.translations[CallLanguage][argKey].Intermediates) :
          trl.translations[CallLanguage][argKey].Intermediates[i] \notin ParamNames

\* The text of the error of a call.
ErrorText == IF err = Nil THEN "" ELSE err[1][1]

\* C9: Translate returns an error and an empty result when the number of
\* parameters is odd, a name is no string, the language has no Store, the
\* key is not in the Store, or a placeholder has no parameter; odd count,
\* missing value, unknown key and unknown language give four distinct
\* errors.
C9_ErrorsAndNoPartialOutput ==
    Called =>
        /\ (OddCount \/ NameNotString \/ UnknownLanguage \/ UnknownKey \/ MissingValue)
              => (err # Nil /\ out = <<>>)
        /\ OddCount => ErrorText = "invalid dict call"
        /\ (~OddCount /\ ~NameNotString /\ UnknownLanguage)
              => ErrorText = "unknown language"
        /\ (~OddCount /\ ~NameNotString /\ UnknownKey)
              => ErrorText = "unknown key"
        /\ MissingValue
              => ErrorText = "parameter required for intermediate in translation"

\* The message {{a}}{{b}} is asked for with a value for a alone: a has been
\* replaced when b is found missing, and nothing is returned.
C9_Witness ==
    /\ pc = "Translate"
    /\ trl.defaultLanguage = En
    /\ languageFn = <<>>
    /\ argKey = <<"t", ".", "w">>
    /\ params = <<Str(<<"a">>), Str(<<"<", "&", "\"", "'", ">">>)>>
    /\ MissingValue
    /\ out = <<>>
    /\ err = Errorf(ErrorQ("parameter required for intermediate in translation",
                           <<"t", ".", "w">>), ":", <<"b">>)

\* What the function bound to the default language returns for the call.
DefaultRendering == Generated(trl, trl.defaultLanguage, argKey, params)

DefaultHasKey ==
    /\ trl.defaultLanguage \in DOMAIN trl.translations
    /\ argKey \in DOMAIN trl.translations[trl.defaultLanguage]

\* C10 as claimed: the function GenerateTranslate(targetLang) returns
\* translates with the default language whenever targetLang is an invalid
\* code or a valid code for which no Store was loaded: a key present in the
\* default language's Store is rendered from the default language instead
\* of failing.
C10_FallsBackWhenInvalidOrUnloaded ==
    (/\ pc = "Generated"
     /\ ~Valid(targetLang) \/ targetLang \notin DOMAIN trl.translations
     /\ DefaultHasKey
     /\ DefaultRendering.err = Nil)
        => (err = Nil /\ out = DefaultRendering.out)

\* C10 as amended: the function translates with the default language
\* whenever Valid rejects targetLang; for a code Valid accepts and no Store
\* was loaded for, every call fails, with "unknown language" when the
\* parameters are well-formed.
C10_FallsBackWhenInvalid ==
    pc = "Generated" =>
        /\ ~Valid(targetLang)
              => (out = DefaultRendering.out /\ err = DefaultRendering.err)
        /\ (Valid(targetLang) /\ targetLang \notin DOMAIN trl.translations)
              => /\ err # Nil /\ out = <<>>
                 /\ (~OddCount /\ ~NameNotString)
                       => err = ErrorQ("unknown language", targetLang)

\* The target e3 is no language code: the key h is rendered from en.json,
\* the default language's file, and not from de.json.
C10_Witness ==
    /\ pc = "Generated"
    /\ targetLang = <<"e", "3">>
    /\ trl.defaultLanguage = En
    /\ argKey = <<"h">>
    /\ params = <<Str(<<"a">>), Str(<<"b">>)>>
    /\ err = Nil
    /\ out = <<"<", "b", ">">>


(***************************************************************************)
(* The dotted path of a sequence of fragments: every fragment without its  *)
(* leading and trailing dots, the empty ones left out, the others joined   *)
(* with single dots.                                                       *)
(***************************************************************************)
StripDots(s) ==
    LET nd == {i \in 1..Len(s) : s[i] # "."}
    IN  IF nd = {} THEN <<>>
        ELSE SubSeq(s, CHOOSE i \in nd : \A j \in nd : i <= j,
                       CHOOSE i \in nd : \A j \in nd : j <= i)

NonEmpty(s) == s # <<>>

Kept(fragments) ==
    SelectSeq([i \in 1..Len(fragments) |-> StripDots(fragments[i])], NonEmpty)

RECURSIVE DotJoin(_)
DotJoin(parts) ==
    IF Len(parts) = 0 THEN <<>>
    ELSE IF Len(parts) = 1 THEN parts[1]
    ELSE parts[1] \o <<".">> \o DotJoin(Tail(parts))

DottedPath(fragments) == DotJoin(Kept(fragments))

\* C11: appending any sequence of fragments to the zero Key yields the
\* "."-join, in order, of the fragments after trimming leading and trailing
\* "." from each, fragments that are empty after trimming contributing
\* nothing (so appending an empty or dots-only fragment leaves the key
\* unchanged), and String() returns that dotted path verbatim.
C11_AppendJoinsTrimmedFragments ==
    /\ builtKey = DottedPath(SubSeq(keys, 1, appended))
    /\ pc = "String" => out = DottedPath(SubSeq(keys, 1, appended))

\* C11: the fragments "a", ".", ".b.", "" have all been appended and
\* String() has returned "a.b".
C11_Witness ==
    /\ pc = "String"
    /\ keys = << <<"a">>, <<".">>, <<".", "b", ".">>, <<>> >>
    /\ appended = Len(keys)
    /\ out = <<"a", ".", "b">>


(***************************************************************************)
(* Several files of one language.                                          *)
(***************************************************************************)
\* The JSON files of dir whose name gives language l and whose tree has a
\* string leaf keyed k.
FilesWithKey(dir, l, k) ==
    {i \in JsonTrees(dir) :
        /\ ToLower(dir[i].stem) = l
        /\ \E lf \in StringLeaves(<<>>, dir[i].content.m) : FullKey(lf.path) = k}

\* C12: when several .json files of the directory map to the same language
\* code, a successful Load has accumulated them into one Store for that
\* language: every key of every such file is present, keys that occur only
\* in an earlier file included, and a key has the message of the last file
\* that has it.
C12_SameLanguageFilesAccumulate ==
    (pc = "Load" /\ err = Nil) =>
        \A i \in JsonTrees(fs) :
            \A lf \in StringLeaves(<<>>, fs[i].content.m) :
                LET l == ToLower(fs[i].stem)
                    k == FullKey(lf.path)
                    last == CHOOSE j \in FilesWithKey(fs, l, k) :
                                \A h \in FilesWithKey(fs, l, k) : h <= j
                IN  /\ l \in DOMAIN ret.translations
                    /\ k \in DOMAIN ret.translations[l]
                    /\ \E ll \in StringLeaves(<<>>, fs[last].content.m) :
                          /\ FullKey(ll.path) = k
                          /\ ret.translations[l][k].Message = ll.s


(***************************************************************************)
(* The tokens of a message replaced at once: the message is read from left *)
(* to right, a placeholder's token is replaced where it stands by the      *)
(* escaped value passed for the placeholder, and the text put in is not    *)
(* read again.                                                             *)
(***************************************************************************)
IsPrefixOf(token, text) ==
    Len(token) <= Len(text) /\ SubSeq(text, 1, Len(token)) = token

RECURSIVE TokensReplaced(_, _)
TokensReplaced(text, names) ==
    IF text = <<>> THEN <<>>
    ELSE IF \E n \in names : IsPrefixOf(Format(n), text)
    THEN LET n == CHOOSE x \in names : IsPrefixOf(Format(x), text)
         IN  EscapeString(Sprintf(ParamValue(n)))
                \o TokensReplaced(SubSeq(text, Len(Format(n)) + 1, Len(text)), names)
    ELSE <<Head(text)>> \o TokensReplaced(Tail(text), names)

\* C13: in a successful Translate call the text put in for one placeholder
\* is never itself substituted: the result is the message with every
\* placeholder token replaced at once by its own escaped value, so a value
\* that contains the token of another placeholder appears as supplied.
C13_InjectedTextNotSubstituted ==
    (Called /\ err = Nil) =>
        LET translation == trl.translations[CallLanguage][argKey]
            names == {translation.Intermediates[i] :
                         i \in 1..Len(translation.Intermediates)}
        IN  out = TokensReplaced(translation.Message, names)

============================================================================
